---- MODULE Spec2Model ----
(***************************************************************************)
(* A model of src/main.py: the Person / Location / LoginOut records with   *)
(* their declared field constraints, the request binder of every path      *)
(* operation, the path operation functions themselves, and the response    *)
(* serialisation (status code, response_model_exclude).                    *)
(*                                                                         *)
(* A request is served in steps: it is received, its parameters are bound  *)
(* and validated, the path operation function runs, the response is        *)
(* serialised, and the worker becomes free again.                          *)
(***************************************************************************)
EXTENDS Integers, Sequences, FiniteSets, TLC

(***************************************************************************)
(* Bounds of the model.                                                    *)
(***************************************************************************)
\* how far beyond each declared limit the submitted values range
Margin == 1
\* the largest identifier submitted on the path (persons holds 1..4)
MaxPersonId == 6
\* the number of workers serving requests at once
NumWorkers == 2

(***************************************************************************)
(* Limits declared in the source.                                          *)
(***************************************************************************)
NameMinLength == 1
NameMaxLength == 50
AgeGt == 0
AgeLe == 150
PasswordMinLength == 8
LocationMinLength == 0
LocationMaxLength == 20
UsernameMaxLength == 20
LoginPasswordMinLength == 2
LoginPasswordMaxLength == 20
ContactNameMinLength == 1
ContactNameMaxLength == 20
MessageMinLength == 20
QueryNameMinLength == 1
QueryNameMaxLength == 50
PersonIdGt == 0
HTTP_200_OK == 200
HTTP_201_CREATED == 201
HTTP_404_NOT_FOUND == 404

(***************************************************************************)
(* Optional values: None, or Some(v).                                      *)
(***************************************************************************)
None == <<>>
Some(v) == <<v>>
IsNone(o) == o = <<>>
Get(o) == o[1]

\* the string of n copies of the one-character string c
RECURSIVE Rep(_, _)
Rep(c, n) ==
  IF n <= 0 THEN ""
  ELSE LET half == Rep(c, n \div 2)
       IN  half \o half \o (IF n % 2 = 1 THEN c ELSE "")

\* the concatenation of a sequence of sequences
RECURSIVE Concat(_)
Concat(ss) == IF ss = <<>> THEN <<>> ELSE Head(ss) \o Concat(Tail(ss))

(***************************************************************************)
(* Field constraints.  Each returns the sequence of errors of one field:   *)
(* the empty sequence when the value is accepted.                          *)
(***************************************************************************)
HairColor == {"white", "brown", "black", "blonde", "red"}

Err(loc, type) == <<[loc |-> loc, type |-> type]>>

\* a str field with optional min_length / max_length
StrField(loc, raw, required, min, max) ==
  IF IsNone(raw)
  THEN IF required THEN Err(loc, "value_error.missing") ELSE <<>>
  ELSE IF ~IsNone(min) /\ Len(Get(raw)) < Get(min)
       THEN Err(loc, "value_error.any_str.min_length")
       ELSE IF ~IsNone(max) /\ Len(Get(raw)) > Get(max)
            THEN Err(loc, "value_error.any_str.max_length")
            ELSE <<>>

\* IntField with the lower limit included
IntFieldGe(loc, raw, gt, le) ==
  IF IsNone(raw)
  THEN Err(loc, "value_error.missing")
  ELSE IF ~(Get(raw) >= gt)
       THEN Err(loc, "value_error.number.not_ge")
       ELSE IF ~IsNone(le) /\ ~(Get(raw) <= Get(le))
            THEN Err(loc, "value_error.number.not_le")
            ELSE <<>>

\* an int field with gt / le; le is optional
IntField(loc, raw, gt, le) ==
  IF IsNone(raw)
  THEN Err(loc, "value_error.missing")
  ELSE IF ~(Get(raw) > gt)
       THEN Err(loc, "value_error.number.not_gt")
       ELSE IF ~IsNone(le) /\ ~(Get(raw) <= Get(le))
            THEN Err(loc, "value_error.number.not_le")
            ELSE <<>>

\* an optional field of an enumeration
EnumField(loc, raw, allowed) ==
  IF IsNone(raw) \/ Get(raw) \in allowed
  THEN <<>>
  ELSE Err(loc, "type_error.enum")

\* The format predicates are the validation library's.  They are modelled on
\* the values submitted here: the well-formed ones are listed.
EmailStr == {"maicol@gmail.com", "a@b.com"}
IPvAnyAddress == {"127.0.0.1", "::1"}
HttpUrl == {"https://www.live.com"}

FormatField(loc, raw, required, wellformed, type) ==
  IF IsNone(raw)
  THEN IF required THEN Err(loc, "value_error.missing") ELSE <<>>
  ELSE IF Get(raw) \in wellformed THEN <<>> ELSE Err(loc, type)

(***************************************************************************)
(* The records.                                                            *)
(***************************************************************************)
LocationFields == {"city", "state", "country"}

\* LocationErrors with min_length 1
LocationErrorsMin1(loc, raw) ==
  Concat(<<
    StrField(loc \o <<"city">>, raw.city, TRUE, Some(1), Some(LocationMaxLength)),
    StrField(loc \o <<"state">>, raw.state, TRUE, Some(1), Some(LocationMaxLength)),
    StrField(loc \o <<"country">>, raw.country, TRUE, Some(1),
             Some(LocationMaxLength)) >>)

LocationErrors(loc, raw) ==
  Concat(<<
    StrField(loc \o <<"city">>, raw.city, TRUE,
             Some(LocationMinLength), Some(LocationMaxLength)),
    StrField(loc \o <<"state">>, raw.state, TRUE,
             Some(LocationMinLength), Some(LocationMaxLength)),
    StrField(loc \o <<"country">>, raw.country, TRUE,
             Some(LocationMinLength), Some(LocationMaxLength)) >>)

\* the validated Location: defined when LocationErrors is empty
Location(raw) ==
  [city |-> Get(raw.city), state |-> Get(raw.state), country |-> Get(raw.country)]

PersonFields ==
  {"first_name", "last_name", "age", "hair_color", "is_married", "email",
   "addressIp", "website_url", "password"}

\* PersonErrors with no min_length on the password
PersonErrorsNoPasswordMin(loc, raw) ==
  Concat(<<
    StrField(loc \o <<"first_name">>, raw.first_name, TRUE,
             Some(NameMinLength), Some(NameMaxLength)),
    StrField(loc \o <<"last_name">>, raw.last_name, TRUE,
             Some(NameMinLength), Some(NameMaxLength)),
    IntField(loc \o <<"age">>, raw.age, AgeGt, Some(AgeLe)),
    EnumField(loc \o <<"hair_color">>, raw.hair_color, HairColor),
    FormatField(loc \o <<"email">>, raw.email, TRUE, EmailStr,
                "value_error.email"),
    FormatField(loc \o <<"addressIp">>, raw.addressIp, FALSE, IPvAnyAddress,
                "value_error.ipvanyaddress"),
    FormatField(loc \o <<"website_url">>, raw.website_url, FALSE, HttpUrl,
                "value_error.url"),
    StrField(loc \o <<"password">>, raw.password, TRUE, None, None) >>)

PersonErrors(loc, raw) ==
  Concat(<<
    StrField(loc \o <<"first_name">>, raw.first_name, TRUE,
             Some(NameMinLength), Some(NameMaxLength)),
    StrField(loc \o <<"last_name">>, raw.last_name, TRUE,
             Some(NameMinLength), Some(NameMaxLength)),
    IntField(loc \o <<"age">>, raw.age, AgeGt, Some(AgeLe)),
    EnumField(loc \o <<"hair_color">>, raw.hair_color, HairColor),
    \* is_married: Optional[bool], no constraint
    FormatField(loc \o <<"email">>, raw.email, TRUE, EmailStr,
                "value_error.email"),
    FormatField(loc \o <<"addressIp">>, raw.addressIp, FALSE, IPvAnyAddress,
                "value_error.ipvanyaddress"),
    FormatField(loc \o <<"website_url">>, raw.website_url, FALSE, HttpUrl,
                "value_error.url"),
    StrField(loc \o <<"password">>, raw.password, TRUE,
             Some(PasswordMinLength), None) >>)

\* the validated Person: defined when PersonErrors is empty.  An Optional
\* field, with or without Field(), is None when absent.
Person(raw) ==
  [first_name |-> Get(raw.first_name),
   last_name |-> Get(raw.last_name),
   age |-> Get(raw.age),
   hair_color |-> raw.hair_color,
   is_married |-> raw.is_married,
   email |-> Get(raw.email),
   addressIp |-> raw.addressIp,
   website_url |-> raw.website_url,
   password |-> Get(raw.password)]

(***************************************************************************)
(* LoginOut is built by the login function from keyword arguments, which   *)
(* are Python values: a str, or a SecretStr wrapping one.                  *)
(***************************************************************************)
Str(v) == [type |-> "str", value |-> v]
SecretStr(v) == [type |-> "SecretStr", value |-> v]

\* a required str field given a Python value: only a str is a valid string
\* (a SecretStr is no subclass of str), and then the length bounds apply
StrValue(loc, v, min, max) ==
  IF v.type # "str"
  THEN Err(loc, "type_error.str")
  ELSE StrField(loc, Some(v.value), TRUE, min, max)

LoginOutFields == {"username", "password", "message"}

LoginOutErrors(kw) ==
  Concat(<<
    StrValue(<<"username">>, kw.username, None, Some(UsernameMaxLength)),
    StrValue(<<"password">>, kw.password,
             Some(LoginPasswordMinLength), Some(LoginPasswordMaxLength)) >>)

\* the validated LoginOut: defined when LoginOutErrors is empty
LoginOut(kw) ==
  [username |-> kw.username.value,
   password |-> kw.password.value,
   message |-> "Login successful :)"]

(***************************************************************************)
(* The request binder: the declared parameters of each path operation.     *)
(* A request names its route and carries the raw value of every parameter, *)
(* None when the parameter is absent.                                      *)
(***************************************************************************)
\* a form field submitted empty counts as absent
FormValue(raw) == IF raw = Some("") THEN None ELSE raw

BindErrors(r) ==
  CASE r.route = "home" -> <<>>
    [] r.route = "create_person" -> PersonErrors(<<"body">>, r.person)
    [] r.route = "show_person_query" ->
         Concat(<<
           StrField(<<"query", "name">>, r.name, FALSE,
                    Some(QueryNameMinLength), Some(QueryNameMaxLength)),
           StrField(<<"query", "age">>, r.age, TRUE, None, None) >>)
    [] r.route = "show_person" ->
         IntField(<<"path", "person_id">>, Some(r.person_id), PersonIdGt, None)
    [] r.route = "update_person" ->
         Concat(<<
           IntField(<<"path", "person_id">>, Some(r.person_id), PersonIdGt, None),
           PersonErrors(<<"body", "person">>, r.person),
           LocationErrors(<<"body", "location">>, r.location) >>)
    [] r.route = "login" ->
         Concat(<<
           StrField(<<"body", "username">>, FormValue(r.username), TRUE, None, None),
           StrField(<<"body", "password">>, FormValue(r.password), TRUE, None, None) >>)
    [] r.route = "contact" ->
         Concat(<<
           StrField(<<"body", "first_name">>, FormValue(r.first_name), TRUE,
                    Some(ContactNameMinLength), Some(ContactNameMaxLength)),
           StrField(<<"body", "last_name">>, FormValue(r.last_name), TRUE,
                    Some(ContactNameMinLength), Some(ContactNameMaxLength)),
           FormatField(<<"body", "email">>, FormValue(r.email), TRUE, EmailStr,
                       "value_error.email"),
           StrField(<<"body", "message">>, FormValue(r.message), TRUE,
                    Some(MessageMinLength), None) >>)
    [] r.route = "post_image" ->
         IF IsNone(r.image) THEN Err(<<"body", "image">>, "value_error.missing")
         ELSE <<>>

\* the arguments the path operation function is called with: defined when
\* BindErrors is empty
Args(r) ==
  CASE r.route = "home" -> [route |-> r.route]
    [] r.route = "create_person" -> [person |-> Person(r.person)]
    [] r.route = "show_person_query" -> [name |-> r.name, age |-> r.age]
    [] r.route = "show_person" -> [person_id |-> r.person_id]
    [] r.route = "update_person" ->
         [person_id |-> r.person_id, person |-> Person(r.person),
          location |-> Location(r.location)]
    [] r.route = "login" ->
         [username |-> Str(Get(r.username)), password |-> SecretStr(Get(r.password))]
    [] r.route = "contact" ->
         [first_name |-> Get(r.first_name), last_name |-> Get(r.last_name),
          email |-> Get(r.email), message |-> Get(r.message),
          user_agent |-> r.user_agent, ads |-> r.ads]
    [] r.route = "post_image" -> [image |-> Get(r.image)]

(***************************************************************************)
(* The path operation functions.  Each gives what the function does: it    *)
(* returns a value, raises an HTTPException, or fails with an exception    *)
(* nothing handles.                                                        *)
(***************************************************************************)
Return(v) == [kind |-> "return", value |-> v]
HTTPException(status_code, detail) ==
  [kind |-> "HTTPException", status_code |-> status_code, detail |-> detail]
ValidationError(errors) == [kind |-> "ValidationError", errors |-> errors]

\* dict.update: the keys of b are added to a, replacing those a has
DictUpdate(a, b) ==
  [k \in DOMAIN a \cup DOMAIN b |-> IF k \in DOMAIN b THEN b[k] ELSE a[k]]

\* whether x occurs in the list ps
In(x, ps) == \E i \in 1..Len(ps) : ps[i] = x

\* round(n / d, 2) in hundredths, ties to the even hundredth
Round2(n, d) ==
  LET q == (n * 100) \div d
      rem == (n * 100) % d
  IN  IF 2 * rem > d \/ (2 * rem = d /\ q % 2 = 1) THEN q + 1 ELSE q

home_body == Return([hello |-> "World"])

create_person_body(a) == Return(a.person)

show_person_query_body(a) ==
  Return((IF IsNone(a.name) THEN "null" ELSE Get(a.name)) :> a.age)

\* show_person_body with the membership test left out
show_person_found(a, ps) == Return(ToString(a.person_id) :> "it exists!")

show_person_body(a, ps) ==
  IF ~In(a.person_id, ps)
  THEN HTTPException(HTTP_404_NOT_FOUND, "This person is not exist")
  ELSE Return(ToString(a.person_id) :> "it exists!")

\* update_person_body with the password left out of the dict
update_person_no_password(a) ==
  Return(DictUpdate([k \in DOMAIN a.person \ {"password"} |-> a.person[k]],
                    a.location))

update_person_body(a) == Return(DictUpdate(a.person, a.location))

login_body(a) ==
  LET kw == [username |-> a.username, password |-> a.password]
  IN  IF LoginOutErrors(kw) # <<>>
      THEN ValidationError(LoginOutErrors(kw))
      ELSE Return(LoginOut(kw))

contact_body(a) == Return(a.user_agent)

post_image_body(a) ==
  Return([Filename |-> a.image.filename,
          Format |-> a.image.content_type,
          SizeKbHundredths |-> Round2(Len(a.image.content), 1024)])

Call(route, a, ps) ==
  CASE route = "home" -> home_body
    [] route = "create_person" -> create_person_body(a)
    [] route = "show_person_query" -> show_person_query_body(a)
    [] route = "show_person" -> show_person_body(a, ps)
    [] route = "update_person" -> update_person_body(a)
    [] route = "login" -> login_body(a)
    [] route = "contact" -> contact_body(a)
    [] route = "post_image" -> post_image_body(a)

(***************************************************************************)
(* The response: the status code of the decorator, and the returned value  *)
(* filtered through response_model / response_model_exclude.               *)
(***************************************************************************)
StatusCode(route) ==
  IF route = "create_person" THEN HTTP_201_CREATED ELSE HTTP_200_OK

ResponseModelFields(route) ==
  CASE route = "create_person" -> Some(PersonFields)
    [] route = "login" -> Some(LoginOutFields)
    [] OTHER -> None

\* ResponseModelExclude with no exclusion declared
NoExclude(route) == {}

ResponseModelExclude(route) ==
  IF route \in {"create_person", "login"} THEN {"password"} ELSE {}

Serialize(route, value) ==
  IF IsNone(ResponseModelFields(route))
  THEN value
  ELSE [k \in Get(ResponseModelFields(route)) \ ResponseModelExclude(route)
          |-> value[k]]

RequestValidationError(errors) == [status |-> 422, body |-> [detail |-> errors]]

Response(route, out) ==
  CASE out.kind = "return" ->
         [status |-> StatusCode(route), body |-> Serialize(route, out.value)]
    [] out.kind = "HTTPException" ->
         [status |-> out.status_code, body |-> [detail |-> out.detail]]
    [] out.kind = "ValidationError" ->
         [status |-> 500, body |-> "Internal Server Error"]

(***************************************************************************)
(* The requests submitted.                                                 *)
(***************************************************************************)
\* the lengths around the limits lo and hi of a length constraint
Lengths(lo, hi) ==
  {n \in (lo - Margin)..lo : n >= 0} \cup (hi..(hi + Margin))

\* the strings of the letter c of the lengths ns
Strs(c, ns) == {Some(Rep(c, n)) : n \in ns}

\* the integers around the limits gt and le of a range constraint
Ints(gt, le) == ((gt - Margin + 1)..(gt + 1)) \cup (le..(le + Margin))

RawPersons(F, L, A, H, M, E, I, U, P) ==
  [first_name : F, last_name : L, age : A, hair_color : H, is_married : M,
   email : E, addressIp : I, website_url : U, password : P]

PersonAges == {None} \cup {Some(n) : n \in Ints(AgeGt, AgeLe)}
PersonPasswords ==
  {None} \cup Strs("p", (PasswordMinLength - Margin)..PasswordMinLength)

HomeRequests == {[route |-> "home"]}

CreateRequests ==
  {[route |-> "create_person", person |-> p] :
     p \in RawPersons(
       {None} \cup Strs("f", Lengths(NameMinLength, NameMaxLength)),
       Strs("l", Lengths(NameMinLength, NameMaxLength)),
       PersonAges,
       {None, Some("black"), Some("green")},
       {None, Some(FALSE)},
       {Some("maicol@gmail.com"), Some("maicol")},
       {None, Some("127.0.0.1"), Some("127.0.0")},
       {None, Some("https://www.live.com")},
       PersonPasswords)}

QueryRequests ==
  {[route |-> "show_person_query", name |-> n, age |-> a] :
     n \in {None} \cup Strs("n", Lengths(QueryNameMinLength, QueryNameMaxLength)),
     a \in {None, Some("25")}}

ShowRequests ==
  {[route |-> "show_person", person_id |-> i] :
     i \in (PersonIdGt - Margin + 1)..MaxPersonId}

RawLocations ==
  [city : {None} \cup Strs("c", Lengths(LocationMinLength, LocationMaxLength)),
   state : {None} \cup Strs("s", Lengths(LocationMinLength, LocationMaxLength)),
   country : {None} \cup Strs("k", Lengths(LocationMinLength, LocationMaxLength))]

UpdateRequests ==
  {[route |-> "update_person", person_id |-> i, person |-> p, location |-> l] :
     i \in {PersonIdGt, PersonIdGt + 1, MaxPersonId},
     p \in RawPersons(
       Strs("f", Lengths(NameMinLength, NameMaxLength)),
       {Some("Lopez")},
       PersonAges \ {None},
       {None, Some("black")},
       {None},
       {Some("a@b.com")},
       {None, Some("::1")},
       {None},
       PersonPasswords \ {None}),
     l \in RawLocations}

LoginRequests ==
  {[route |-> "login", username |-> u, password |-> p] :
     u \in {None, Some("gus")} \cup Strs("u", Lengths(0, UsernameMaxLength)),
     p \in {None, Some("123")}
           \cup Strs("w", Lengths(LoginPasswordMinLength, LoginPasswordMaxLength))}

ContactRequests ==
  {[route |-> "contact", first_name |-> f, last_name |-> l, email |-> e,
    message |-> m, user_agent |-> u, ads |-> c] :
     f \in {None} \cup Strs("f", Lengths(ContactNameMinLength, ContactNameMaxLength)),
     l \in {Some("Lopez")},
     e \in {Some("maicol@gmail.com"), Some("maicol")},
     m \in {None} \cup Strs("m", (MessageMinLength - Margin)..MessageMinLength),
     u \in {None, Some("Mozilla/5.0")},
     c \in {None, Some("on")}}

ImageRequests ==
  {[route |-> "post_image", image |-> f] :
     f \in {None}
           \cup {Some([filename |-> "me.png", content_type |-> "image/png",
                       content |-> Rep("x", n)]) : n \in {0, 5, 128, 630}}}

(***************************************************************************)
(* The server.                                                             *)
(***************************************************************************)
VARIABLES
  persons,  \* the list of known identifiers
  pc,       \* per worker: "idle", "received", "body", "returned", "done"
  req,      \* per worker: the request it serves, or None
  args,     \* per worker: the bound arguments, or None
  ret,      \* per worker: what the path operation function did, or None
  resp      \* per worker: the response, or None

vars == <<persons, pc, req, args, ret, resp>>

Workers == 1..NumWorkers

Init ==
  /\ persons = <<1, 2, 3, 4>>
  /\ pc = [w \in Workers |-> "idle"]
  /\ req = [w \in Workers |-> None]
  /\ args = [w \in Workers |-> None]
  /\ ret = [w \in Workers |-> None]
  /\ resp = [w \in Workers |-> None]

\* a free worker takes a request of the set R
Receive(w, R) ==
  /\ pc[w] = "idle"
  /\ \E r \in R : req' = [req EXCEPT ![w] = Some(r)]
  /\ pc' = [pc EXCEPT ![w] = "received"]
  /\ UNCHANGED <<persons, args, ret, resp>>

\* the parameters are bound; a request that fails is answered at once
Bind(w) ==
  /\ pc[w] = "received"
  /\ LET r == Get(req[w])
     IN  IF BindErrors(r) # <<>>
         THEN /\ resp' = [resp EXCEPT ![w] = Some(RequestValidationError(BindErrors(r)))]
              /\ pc' = [pc EXCEPT ![w] = "done"]
              /\ UNCHANGED args
         ELSE /\ args' = [args EXCEPT ![w] = Some(Args(r))]
              /\ pc' = [pc EXCEPT ![w] = "body"]
              /\ UNCHANGED resp
  /\ UNCHANGED <<persons, req, ret>>

\* the path operation function of `route` runs and gives `out`
Run(w, route, out) ==
  /\ pc[w] = "body"
  /\ Get(req[w]).route = route
  /\ ret' = [ret EXCEPT ![w] = Some(out)]
  /\ pc' = [pc EXCEPT ![w] = "returned"]
  /\ UNCHANGED <<req, args, resp>>

home(w) ==
  /\ pc[w] = "body"
  /\ Run(w, "home", home_body)
  /\ UNCHANGED persons

\* create_person that also stores a new identifier
create_person_storing(w) ==
  /\ pc[w] = "body"
  /\ Run(w, "create_person", create_person_body(Get(args[w])))
  /\ persons' = Append(persons, Len(persons) + 1)

create_person(w) ==
  /\ pc[w] = "body"
  /\ Run(w, "create_person", create_person_body(Get(args[w])))
  /\ UNCHANGED persons

show_person_query(w) ==
  /\ pc[w] = "body"
  /\ Run(w, "show_person_query", show_person_query_body(Get(args[w])))
  /\ UNCHANGED persons

show_person(w) ==
  /\ pc[w] = "body"
  /\ Run(w, "show_person", show_person_body(Get(args[w]), persons))
  /\ UNCHANGED persons

\* update_person that also stores the identifier
update_person_storing(w) ==
  /\ pc[w] = "body"
  /\ Run(w, "update_person", update_person_body(Get(args[w])))
  /\ persons' = IF In(Get(args[w]).person_id, persons) THEN persons
                ELSE Append(persons, Get(args[w]).person_id)

update_person(w) ==
  /\ pc[w] = "body"
  /\ Run(w, "update_person", update_person_body(Get(args[w])))
  /\ UNCHANGED persons

login(w) ==
  /\ pc[w] = "body"
  /\ Run(w, "login", login_body(Get(args[w])))
  /\ UNCHANGED persons

contact(w) ==
  /\ pc[w] = "body"
  /\ Run(w, "contact", contact_body(Get(args[w])))
  /\ UNCHANGED persons

post_image(w) ==
  /\ pc[w] = "body"
  /\ Run(w, "post_image", post_image_body(Get(args[w])))
  /\ UNCHANGED persons

\* the response is serialised
Respond(w) ==
  /\ pc[w] = "returned"
  /\ resp' = [resp EXCEPT ![w] = Some(Response(Get(req[w]).route, Get(ret[w])))]
  /\ pc' = [pc EXCEPT ![w] = "done"]
  /\ UNCHANGED <<persons, req, args, ret>>

\* the response is sent and everything of the request is discarded
Close(w) ==
  /\ pc[w] = "done"
  /\ pc' = [pc EXCEPT ![w] = "idle"]
  /\ req' = [req EXCEPT ![w] = None]
  /\ args' = [args EXCEPT ![w] = None]
  /\ ret' = [ret EXCEPT ![w] = None]
  /\ resp' = [resp EXCEPT ![w] = None]
  /\ UNCHANGED persons

Serve(w) ==
  \/ Bind(w)
  \/ home(w)
  \/ create_person(w)
  \/ show_person_query(w)
  \/ show_person(w)
  \/ update_person(w)
  \/ login(w)
  \/ contact(w)
  \/ post_image(w)
  \/ Respond(w)
  \/ Close(w)

\* one worker, serving one request after the other, of every kind
ReceiveAny(w) ==
  \/ Receive(w, HomeRequests)
  \/ Receive(w, CreateRequests)
  \/ Receive(w, QueryRequests)
  \/ Receive(w, ShowRequests)
  \/ Receive(w, UpdateRequests)
  \/ Receive(w, LoginRequests)
  \/ Receive(w, ContactRequests)
  \/ Receive(w, ImageRequests)

Next == ReceiveAny(1) \/ Serve(1)

Spec == Init /\ [][Next]_vars

(***************************************************************************)
(* Several workers serving requests at once.  The requests are the         *)
(* documented examples and scenarios, and every identifier on the path.    *)
(***************************************************************************)
ExamplePerson ==
  [first_name |-> Some("Rodrigo"), last_name |-> Some("Lopez"), age |-> Some(30),
   hair_color |-> Some("black"), is_married |-> Some(FALSE),
   email |-> Some("maicol@gmail.com"), addressIp |-> Some("127.0.0.1"),
   website_url |-> Some("https://www.live.com"),
   password |-> Some("@12asasdas12.")]

ExampleLocation ==
  [city |-> Some("Buenos aires"), state |-> Some("Provincia"),
   country |-> Some("Argentina")]

ExampleCreateRequests ==
  {[route |-> "create_person", person |-> p] :
     p \in {ExamplePerson, [ExamplePerson EXCEPT !.password = Some("@12")]}}

ExampleQueryRequests ==
  {[route |-> "show_person_query", name |-> Some("Rocio"), age |-> Some("25")]}

ExampleUpdateRequests ==
  {[route |-> "update_person", person_id |-> i, person |-> ExamplePerson,
    location |-> ExampleLocation] : i \in {PersonIdGt + 1, MaxPersonId}}

ExampleLoginRequests ==
  {[route |-> "login", username |-> Some("gus"), password |-> Some("123")]}

ExampleContactRequests ==
  {[route |-> "contact", first_name |-> Some("Rodrigo"), last_name |-> Some("Lopez"),
    email |-> Some("maicol@gmail.com"), message |-> Some(Rep("m", MessageMinLength)),
    user_agent |-> Some("Mozilla/5.0"), ads |-> None]}

ExampleImageRequests ==
  {[route |-> "post_image",
    image |-> Some([filename |-> "me.png", content_type |-> "image/png",
                    content |-> Rep("x", 128)])]}

ReceiveExample(w) ==
  \/ Receive(w, HomeRequests)
  \/ Receive(w, ExampleCreateRequests)
  \/ Receive(w, ExampleQueryRequests)
  \/ Receive(w, ShowRequests)
  \/ Receive(w, ExampleUpdateRequests)
  \/ Receive(w, ExampleLoginRequests)
  \/ Receive(w, ExampleContactRequests)
  \/ Receive(w, ExampleImageRequests)

NextConc == \E w \in Workers : ReceiveExample(w) \/ Serve(w)

SpecConc == Init /\ [][NextConc]_vars

(***************************************************************************)
(* The properties.                                                         *)
(***************************************************************************)
Done(w) == pc[w] = "done"
Req(w) == Get(req[w])
Resp(w) == Get(resp[w])
\* the path operation function of worker w's request has run
BodyRan(w) == ~IsNone(ret[w])
DoneOn(w, route) == Done(w) /\ Req(w).route = route

\* the constraints of a submitted Person, as the documentation states them
NameOK(o) == ~IsNone(o) /\ Len(Get(o)) >= 1 /\ Len(Get(o)) <= 50
AgeOK(o) == ~IsNone(o) /\ Get(o) >= 1 /\ Get(o) <= 150
PasswordOK(o) == ~IsNone(o) /\ Len(Get(o)) >= 8
OtherFieldsOK(raw) ==
  /\ IsNone(raw.hair_color) \/ Get(raw.hair_color) \in HairColor
  /\ ~IsNone(raw.email) /\ Get(raw.email) \in EmailStr
  /\ IsNone(raw.addressIp) \/ Get(raw.addressIp) \in IPvAnyAddress
  /\ IsNone(raw.website_url) \/ Get(raw.website_url) \in HttpUrl
RawPersonOK(raw) ==
  /\ NameOK(raw.first_name) /\ NameOK(raw.last_name)
  /\ AgeOK(raw.age) /\ PasswordOK(raw.password)
  /\ OtherFieldsOK(raw)
LocationFieldOK(o) == ~IsNone(o) /\ Len(Get(o)) <= 20
RawLocationOK(raw) ==
  LocationFieldOK(raw.city) /\ LocationFieldOK(raw.state) /\ LocationFieldOK(raw.country)

\* C1: GET /person/detail/{person_id} with person_id > 0 answers 200 with
\* {person_id: "it exists!"} exactly when person_id is one of 1, 2, 3, 4, and
\* otherwise 404 with the detail "This person is not exist".
C1_ShowPerson ==
  \A w \in Workers :
    (DoneOn(w, "show_person") /\ Req(w).person_id > 0) =>
      IF Req(w).person_id \in {1, 2, 3, 4}
      THEN /\ Resp(w).status = 200
           /\ Resp(w).body = (ToString(Req(w).person_id) :> "it exists!")
      ELSE /\ Resp(w).status = 404
           /\ Resp(w).body = [detail |-> "This person is not exist"]

C1_Witness ==
  \E w \in Workers :
    /\ DoneOn(w, "show_person")
    /\ Req(w).person_id = 5
    /\ Resp(w).status = 404

\* C2: a successful response of POST /person/new or POST /login has no
\* "password" key and has every other field of Person, respectively LoginOut,
\* with the value of the record returned.
C2_PasswordExcluded ==
  \A w \in Workers :
    /\ (DoneOn(w, "create_person") /\ Resp(w).status = 201) =>
         /\ "password" \notin DOMAIN Resp(w).body
         /\ DOMAIN Resp(w).body = PersonFields \ {"password"}
         /\ \A k \in PersonFields \ {"password"} :
              Resp(w).body[k] = Get(ret[w]).value[k]
    /\ (DoneOn(w, "login") /\ Resp(w).status = 200) =>
         /\ "password" \notin DOMAIN Resp(w).body
         /\ DOMAIN Resp(w).body = LoginOutFields \ {"password"}
         /\ \A k \in LoginOutFields \ {"password"} :
              Resp(w).body[k] = Get(ret[w]).value[k]

C2_Witness ==
  \E w \in Workers :
    /\ DoneOn(w, "create_person")
    /\ Resp(w).status = 201
    /\ Len(Get(ret[w]).value.password) >= 8

\* the constraints C3 counts as declared: those of the parameters, and for
\* POST /login the bounds of LoginOut
DeclaredConstraintsHold(r) ==
  /\ BindErrors(r) = <<>>
  /\ r.route = "login" =>
       /\ Len(Get(r.username)) <= 20
       /\ Len(Get(r.password)) >= 2 /\ Len(Get(r.password)) <= 20

\* C3: the path operation function never runs for a request with a missing
\* required parameter or a failed declared constraint, the bounds of LoginOut
\* included.
C3_NoBodyOnInvalid ==
  \A w \in Workers : BodyRan(w) => DeclaredConstraintsHold(Req(w))

\* C4: POST /login with a username submitted of at most 20 characters (such as
\* "gus") and a password of 2 to 20 characters (such as "123") answers 200 with
\* exactly the username submitted and the message "Login successful :)", and
\* no password.
C4_LoginSucceeds ==
  \A w \in Workers :
    ( /\ DoneOn(w, "login")
      /\ ~IsNone(Req(w).username)
      /\ Len(Get(Req(w).username)) >= 1 /\ Len(Get(Req(w).username)) <= 20
      /\ ~IsNone(Req(w).password)
      /\ Len(Get(Req(w).password)) >= 2 /\ Len(Get(Req(w).password)) <= 20 ) =>
        /\ Resp(w).status = 200
        /\ Resp(w).body = [username |-> Get(Req(w).username),
                           message |-> "Login successful :)"]

\* C5: PUT /person/{person_id} with person_id > 0, a valid Person and a valid
\* Location answers 200 with every Person field, password included, and the
\* three Location fields, each with the value submitted.
C5_UpdateMerges ==
  \A w \in Workers :
    ( /\ DoneOn(w, "update_person")
      /\ Req(w).person_id > 0
      /\ RawPersonOK(Req(w).person)
      /\ RawLocationOK(Req(w).location) ) =>
        LET p == Req(w).person
            l == Req(w).location
            b == Resp(w).body
        IN  /\ Resp(w).status = 200
            /\ DOMAIN b = PersonFields \cup LocationFields
            /\ b["first_name"] = Get(p.first_name)
            /\ b["last_name"] = Get(p.last_name)
            /\ b["age"] = Get(p.age)
            /\ b["hair_color"] = p.hair_color
            /\ b["is_married"] = p.is_married
            /\ b["email"] = Get(p.email)
            /\ b["addressIp"] = p.addressIp
            /\ b["website_url"] = p.website_url
            /\ b["password"] = Get(p.password)
            /\ b["city"] = Get(l.city)
            /\ b["state"] = Get(l.state)
            /\ b["country"] = Get(l.country)

C5_Witness ==
  \E w \in Workers :
    /\ DoneOn(w, "update_person")
    /\ Req(w).person_id \notin {1, 2, 3, 4}
    /\ Resp(w).status = 200
    /\ "password" \in DOMAIN Resp(w).body
    /\ Resp(w).body["city"] = Rep("c", 20)

\* C6: with every other field valid, a Person with an integer age is
\* constructed (POST /person/new answers 201) when the age is in 1..150, and
\* is refused when the age is <= 0 or > 150.
C6_AgeRange ==
  \A w \in Workers :
    ( /\ DoneOn(w, "create_person")
      /\ ~IsNone(Req(w).person.age)
      /\ RawPersonOK([Req(w).person EXCEPT !.age = Some(30)]) ) =>
        LET age == Get(Req(w).person.age)
        IN  /\ (age >= 1 /\ age <= 150) => (BodyRan(w) /\ Resp(w).status = 201)
            /\ (age <= 0 \/ age > 150) => (~BodyRan(w) /\ Resp(w).status = 422)

C6_Witness ==
  \E w \in Workers :
    /\ DoneOn(w, "create_person")
    /\ RawPersonOK([Req(w).person EXCEPT !.age = Some(30)])
    /\ Req(w).person.age = Some(151)
    /\ Resp(w).status = 422

\* a Person value that satisfies every constraint the claim lists
PersonValueOK(p) ==
  /\ Len(p.first_name) >= 1 /\ Len(p.first_name) <= 50
  /\ Len(p.last_name) >= 1 /\ Len(p.last_name) <= 50
  /\ p.age >= 1 /\ p.age <= 150
  /\ Len(p.password) >= 8

\* C7: every Person a path operation function receives (create_person,
\* update_person) satisfies all its constraints at once, and a request whose
\* Person has a password shorter than 8 characters or any other invalid field
\* yields no Person: the function does not run and the answer is 422.
C7_PersonAtomic ==
  \A w \in Workers :
    (~IsNone(req[w]) /\ Req(w).route \in {"create_person", "update_person"}) =>
      /\ ~IsNone(args[w]) => PersonValueOK(Get(args[w]).person)
      /\ ~RawPersonOK(Req(w).person) =>
           /\ IsNone(args[w])
           /\ ~BodyRan(w)
           /\ Done(w) => Resp(w).status = 422

C7_Witness ==
  \E w \in Workers :
    /\ DoneOn(w, "create_person")
    /\ RawPersonOK([Req(w).person EXCEPT !.password = Some("longenough")])
    /\ Req(w).person.password = Some(Rep("p", 7))
    /\ Resp(w).status = 422

\* C8: each of city, state and country accepts the empty string and every
\* string of up to 20 characters and refuses every longer string, so a
\* Location of three empty strings is valid.
C8_LocationBounds ==
  \A w \in Workers :
    ( /\ DoneOn(w, "update_person")
      /\ Req(w).person_id > 0
      /\ RawPersonOK(Req(w).person)
      /\ \A f \in LocationFields : ~IsNone(Req(w).location[f]) ) =>
        IF \A f \in LocationFields : Len(Get(Req(w).location[f])) <= 20
        THEN Resp(w).status = 200
        ELSE /\ Resp(w).status = 422
             /\ \A f \in LocationFields :
                  (\E i \in 1..Len(Resp(w).body.detail) :
                     Resp(w).body.detail[i].loc = <<"body", "location", f>>)
                  <=> Len(Get(Req(w).location[f])) > 20

C8_Witness ==
  \E w \in Workers :
    /\ DoneOn(w, "update_person")
    /\ Req(w).location = [city |-> Some(""), state |-> Some(""), country |-> Some("")]
    /\ Resp(w).status = 200

ServedAlone(r) ==
  IF BindErrors(r) # <<>>
  THEN RequestValidationError(BindErrors(r))
  ELSE Response(r.route, Call(r.route, Args(r), <<1, 2, 3, 4>>))

====
